---- MODULE Spec2Model ----
(***************************************************************************)
(* Conversation-turn latency measurement of the avytrweb front-end.        *)
(*                                                                         *)
(* Two revisions of ConversationLatencyVAD are modelled side by side; the  *)
(* variable rev says which one a behaviour runs:                           *)
(*   "agent"  components/livekit/conversation-latency-vad.tsx, lines       *)
(*            228-449: local VAD on the mic track, remote start taken from *)
(*            the assistant state flipping to 'speaking';                  *)
(*   "dual"   unnamed/part_004: the same local VAD with other tunables,    *)
(*            remote start taken from a second VAD on the avatar track.    *)
(*                                                                         *)
(* Time is the value of Date.now() in milliseconds; the clock moves in     *)
(* steps of Quantum or LongStep, and a timer's callback runs at the time   *)
(* the timer is due.  The EMA of the analyser average is kept in whole     *)
(* level units, rounded down.                                              *)
(***************************************************************************)
EXTENDS Integers, Sequences, FiniteSets

(* ------------------------------------------------------------------ *)
(* Bounds of the model                                                  *)
(* ------------------------------------------------------------------ *)
\* the clock advances by Quantum or by LongStep ms, each a bounded number
\* of times
Quantum == 300
LongStep == 6200
MaxSmallTicks == 4
MaxLongTicks == 2
\* timer callbacks that find the clock before their due time and move it
MaxJumps == 2
\* clock movements of any kind in one behaviour
MaxAdvances == 6
\* accepted local end edges in one behaviour
MaxEnds == 2
\* measurements recorded in one behaviour
MaxHist == 2
\* remote start events in one behaviour
MaxStarts == 2

(* ------------------------------------------------------------------ *)
(* Tunables of the agent-state revision                                 *)
(* ------------------------------------------------------------------ *)
ALPHA_PCT == 20
SPEAK_THR == 3
MIN_SPEAK_MS == 600
SILENCE_MS == 400
EoS_REFRACT_MS == 1200
KEEP_MS == 12000
MIN_AGE == 250
MAX_AGE == 8000

(* ------------------------------------------------------------------ *)
(* Tunables of the dual-VAD revision (part_004)                         *)
(* ------------------------------------------------------------------ *)
ALPHA_PCT_004 == 20
SPEAK_THR_004 == 3
MIN_SPEAK_MS_004 == 700
SILENCE_MS_004 == 450
EoS_REFRACT_MS_004 == 1500
KEEP_MS_004 == 10000
FRESH_MIN == 300
FRESH_MAX == 7000
R_ALPHA_PCT == 25
R_THR == 5
R_SILENCE_MS == 300

(* ------------------------------------------------------------------ *)
(* Tunables of the IsSpeakingChanged revision (welcome.tsx)             *)
(* ------------------------------------------------------------------ *)
W_EMA_A_PCT == 20
W_SPEAK_THR == 3
W_SILENCE_MS == 450
W_MIN_SPEAK_MS == 500
W_REFRACT_MS == 1200

VARIABLES
  rev,                \* which revision runs
  now,                \* Date.now()
  ticks,              \* clock steps taken so far, by size
  ema,                \* let ema of the local loop
  isSpeakingRef,      \* isSpeakingRef / isUserSpeakingRef
  speakStartRef,      \* number | null
  lastEosRef,         \* number | null
  eosQueueRef,        \* number[]
  localSilenceTimerRef, \* armed timer, kept as the time it is due, or null
  historyRef,         \* historyRef / latencyHistoryRef
  latestLatency,      \* number | null
  averageLatency,     \* number | null, kept as the fraction sum/length
  agentState,         \* useVoiceAssistant().state
  prevAgentStateRef,
  rema,               \* let rema of rloop
  remoteSpeakingRef,
  silenceTimer,       \* let silenceTimer of attachRemoteVAD, as the time due
  ends,               \* history: the accepted local end edges so far
  nStarts,            \* history: remote start events so far
  used,               \* history: the marker each measurement was taken from
  resumed,            \* history: the energy rose again while the timer was armed
  micPub,             \* the local mic publication: none, without a track, with one
  otherPubs,          \* local publications other than the mic
  depsSeen,           \* localPubsSize when the local VAD effect last ran
  attached,           \* the frame loop of the local VAD effect is scheduled
  cancelled,          \* history: due time of the timer the last cleanup cleared
  lastAttach,         \* history: when the effect last attached again
  isUserSpeaking,     \* 'play' revision: useState(false)
  silenceTimerRef,    \* 'play' revision: the ref, as the time due, or null
  timerLive,          \* 'play' revision: the timeout behind the ref is pending
  userEndTime,        \* 'play' revision: number | null
  playListener,       \* 'play' revision: null, or the userEndTime that the
                      \* attached handlePlay closed over
  eosMsRef,           \* welcome.tsx revision: the one marker, number | null
  twin,               \* two more instances of the component, fed the same events
  isUserSpeakingRef,  \* session-view.tsx revision: useRef(false)
  userLastSpokeAtRef, \* session-view.tsx revision: number | null
  userEndTimeRef      \* session-view.tsx revision: the one marker, number | null


vars == <<rev, now, ticks, ema, isSpeakingRef, speakStartRef, lastEosRef, eosQueueRef,
          localSilenceTimerRef, historyRef, latestLatency, averageLatency,
          agentState, prevAgentStateRef, rema, remoteSpeakingRef, silenceTimer,
          ends, nStarts, used, resumed, micPub, otherPubs, depsSeen, attached,
          cancelled, lastAttach, isUserSpeaking, silenceTimerRef, timerLive, userEndTime,
          playListener, eosMsRef, twin, isUserSpeakingRef, userLastSpokeAtRef,
          userEndTimeRef>>

localVars == <<ema, isSpeakingRef, speakStartRef, lastEosRef, localSilenceTimerRef>>
statVars == <<historyRef, latestLatency, averageLatency>>
agentVars == <<agentState, prevAgentStateRef>>
remoteVars == <<rema, remoteSpeakingRef, silenceTimer>>
lifeVars == <<micPub, otherPubs, depsSeen, attached, cancelled, lastAttach>>
playVars == <<isUserSpeaking, silenceTimerRef, timerLive, userEndTime, playListener>>
welcomeVars == <<eosMsRef>>
twinVars == <<twin>>
rawVars == <<isUserSpeakingRef, userLastSpokeAtRef, userEndTimeRef>>
\* what the callbacks of the agent-state and dual-VAD revisions never touch
otherVars == <<lifeVars, playVars, welcomeVars, twinVars, rawVars>>

(* ------------------------------------------------------------------ *)
(* Values                                                               *)
(* ------------------------------------------------------------------ *)
\* number | null: null is the empty sequence, a number t is <<t>>
Null == <<>>
Some(t) == <<t>>
IsNull(x) == x = <<>>
Val(x) == x[1]
\* JavaScript truthiness of a number | null | undefined
Truthy(x) == ~IsNull(x) /\ Val(x) # 0
\* x ?? d
OrElse(x, d) == IF IsNull(x) THEN d ELSE Val(x)

Revs == {"agent", "dual"}
AgentStates == {"listening", "thinking", "speaking"}
\* getAvg of a frame of the mic track: silence, or speech just loud enough
\* for the EMA to settle above SPEAK_THR
Levels == {0, 9}
\* getAvg of a frame of the avatar track: its noise floor, or speech
RemoteLevels == {5, 9}

\* s.reduce((a, b) => a + b, 0), summed by halves to keep the evaluation
\* shallow on a long history
RECURSIVE SumSeq(_)
SumSeq(s) ==
  IF s = <<>> THEN 0
  ELSE IF Len(s) = 1 THEN s[1]
  ELSE LET h == Len(s) \div 2 IN
       SumSeq(SubSeq(s, 1, h)) + SumSeq(SubSeq(s, h + 1, Len(s)))

SeqSet(s) == {s[i] : i \in 1..Len(s)}
MaxOf(S) == CHOOSE x \in S : \A y \in S : y <= x
MinOf(S) == CHOOSE x \in S : \A y \in S : x <= y

\* the tunables of the revision that runs
AlphaPct == IF rev = "agent" THEN ALPHA_PCT
            ELSE IF rev = "welcome" THEN W_EMA_A_PCT ELSE ALPHA_PCT_004
SpeakThr == IF rev = "agent" THEN SPEAK_THR
            ELSE IF rev = "welcome" THEN W_SPEAK_THR ELSE SPEAK_THR_004
MinSpeakMs == IF rev = "agent" THEN MIN_SPEAK_MS
              ELSE IF rev = "welcome" THEN W_MIN_SPEAK_MS ELSE MIN_SPEAK_MS_004
SilenceMs == IF rev = "agent" THEN SILENCE_MS
             ELSE IF rev = "welcome" THEN W_SILENCE_MS ELSE SILENCE_MS_004
RefractMs == IF rev = "agent" THEN EoS_REFRACT_MS
             ELSE IF rev = "welcome" THEN W_REFRACT_MS ELSE EoS_REFRACT_MS_004
KeepMs == IF rev = "agent" THEN KEEP_MS ELSE KEEP_MS_004
MinGapMs == IF rev = "agent" THEN MIN_AGE ELSE FRESH_MIN
MaxGapMs == IF rev = "agent" THEN MAX_AGE ELSE FRESH_MAX

\* ema = ALPHA * avg + (1 - ALPHA) * ema
Smooth(alphaPct, avg, e) ==
  (alphaPct * avg + (100 - alphaPct) * e) \div 100
\* ema > SPEAK_THR
Above(e, thr) == e > thr

(* ------------------------------------------------------------------ *)
(* Initial state: mounted, local loop attached, nothing heard yet  *)
(* ------------------------------------------------------------------ *)
\* room.localParticipant.trackPublications.size
LocalPubsSize == otherPubs + (IF micPub = "none" THEN 0 ELSE 1)

\* a freshly constructed instance of the agent-state revision: its let
\* ema, refs and state, with the end edges it has emitted so far
Fresh ==
  [ema |-> 0, isSpeaking |-> FALSE, speakStart |-> Null, lastEos |-> Null,
   timer |-> Null, queue |-> <<>>, ends |-> <<>>, history |-> <<>>,
   latest |-> Null, average |-> Null, prev |-> "listening", starts |-> 0]

\* the refs and state of a component that has just mounted
Mounted ==
  /\ now = 0
  /\ ticks = [small |-> 0, long |-> 0, jump |-> 0]
  /\ ema = 0
  /\ isSpeakingRef = FALSE
  /\ speakStartRef = Null
  /\ lastEosRef = Null
  /\ eosQueueRef = <<>>
  /\ localSilenceTimerRef = Null
  /\ historyRef = <<>>
  /\ latestLatency = Null
  /\ averageLatency = Null
  /\ agentState = "listening"
  /\ prevAgentStateRef = "listening"
  /\ rema = 0
  /\ remoteSpeakingRef = FALSE
  /\ silenceTimer = Null
  /\ ends = <<>>
  /\ nStarts = 0
  /\ used = <<>>
  /\ resumed = FALSE
  /\ cancelled = Null
  /\ lastAttach = Null
  /\ isUserSpeaking = FALSE
  /\ silenceTimerRef = Null
  /\ timerLive = FALSE
  /\ userEndTime = Null
  /\ playListener = Null
  /\ eosMsRef = Null
  /\ twin = <<Fresh, Fresh>>
  /\ isUserSpeakingRef = FALSE
  /\ userLastSpokeAtRef = Null
  /\ userEndTimeRef = Null

\* the local VAD effect has run once and found the mic track
Init ==
  /\ rev \in Revs
  /\ Mounted
  /\ micPub = "bound"
  /\ otherPubs = 0
  /\ depsSeen = LocalPubsSize
  /\ attached = TRUE


(* ------------------------------------------------------------------ *)
(* The clock.  A timer callback runs when the timer is due: the clock    *)
(* does not step over the due time of an armed timer.                   *)
(* ------------------------------------------------------------------ *)
\* the clock may still move
MayAdvance == ticks.small + ticks.long + ticks.jump < MaxAdvances

TimersAllow(d) ==
  /\ ~IsNull(localSilenceTimerRef) => Val(localSilenceTimerRef) >= now + d
  /\ ~IsNull(silenceTimer) => Val(silenceTimer) >= now + d
  /\ timerLive => Val(silenceTimerRef) >= now + d

\* the callback of a timer due at t runs: no other timer is due before it,
\* and the clock reads t
RunAt(t, other) ==
  /\ ~IsNull(other) => Val(other) >= t
  /\ t > now => (ticks.jump < MaxJumps /\ MayAdvance)
  /\ now' = t
  /\ ticks' = IF t > now THEN [ticks EXCEPT !.jump = @ + 1] ELSE ticks

\* the clock advances by d ms; k names the step size
Advance(d, k, max) ==
  /\ ticks[k] < max
  /\ MayAdvance
  /\ TimersAllow(d)
  /\ now' = now + d
  /\ ticks' = [ticks EXCEPT ![k] = @ + 1]
  /\ UNCHANGED <<rev, localVars, eosQueueRef, statVars, agentVars, remoteVars,
                 ends, nStarts, used, resumed, otherVars>>

Tick == Advance(Quantum, "small", MaxSmallTicks)
LongTick == Advance(LongStep, "long", MaxLongTicks)

(* ------------------------------------------------------------------ *)
(* Local VAD: one animation frame of loop                               *)
(* ------------------------------------------------------------------ *)
\* variant: the timer is armed on any silent frame
FallingEdgeAnySilence(speaking, isSp) == ~speaking

\* if (!speaking && isSpeakingRef.current)
FallingEdge(speaking, isSp) == ~speaking /\ isSp

LocalFrame(avg) ==
  LET e == Smooth(AlphaPct, avg, ema)
      speaking == Above(e, SpeakThr)
      rising == speaking /\ ~isSpeakingRef
      \* the refs after the rising-edge block
      isSp1 == IF rising THEN TRUE ELSE isSpeakingRef
      timer1 == IF rising THEN Null ELSE localSilenceTimerRef
      falling == FallingEdge(speaking, isSp1)
  IN
  /\ attached
  /\ ema' = e
  /\ isSpeakingRef' = isSp1
  /\ speakStartRef' = IF rising THEN Some(now) ELSE speakStartRef
  /\ localSilenceTimerRef' =
       IF falling /\ IsNull(timer1) THEN Some(now + SilenceMs) ELSE timer1
  /\ resumed' = IF falling /\ IsNull(timer1) THEN FALSE
                ELSE IF speaking /\ ~IsNull(timer1) THEN TRUE
                ELSE resumed
  /\ UNCHANGED <<rev, now, ticks, lastEosRef, eosQueueRef, statVars, agentVars,
                 remoteVars, ends, nStarts, used, otherVars>>

(* ------------------------------------------------------------------ *)
(* Local VAD: the silence timer's callback                              *)
(* ------------------------------------------------------------------ *)
\* variant: the age filter forgotten
KeepAll(q, t1) == q

\* q.filter((t) => now - t <= 12_000)
KeepRecent(q, t1) == SelectSeq(q, LAMBDA t : t1 - t <= KeepMs)

\* variant: the refractory test forgotten
AcceptEosNoRefract(spokeFor, t1) == spokeFor >= MinSpeakMs

\* variant: the minimum speaking time forgotten
AcceptEosNoMinSpeak(spokeFor, t1) ==
  Truthy(lastEosRef) => t1 - Val(lastEosRef) >= RefractMs

\* variant: every candidate is accepted
AcceptEosAlways(spokeFor, t1) == TRUE

\* spokeFor >= MIN_SPEAK_MS && sinceLast >= EoS_REFRACT_MS
AcceptEos(spokeFor, t1) ==
  /\ spokeFor >= MinSpeakMs
  /\ (Truthy(lastEosRef) => t1 - Val(lastEosRef) >= RefractMs)

\* variant: unshift, the newest marker goes to the front
EnqueueFront(q, t) == <<t>> \o q

\* eosQueueRef.current.push(now)
Enqueue(q, t) == Append(q, t)

LocalTimerFire ==
  /\ ~IsNull(localSilenceTimerRef)
  /\ RunAt(Val(localSilenceTimerRef), silenceTimer)
  /\ LET t == Val(localSilenceTimerRef)
         started == OrElse(speakStartRef, t)
         spokeFor == t - started
         accept == AcceptEos(spokeFor, t)
     IN
     /\ accept => Len(ends) < MaxEnds
     /\ eosQueueRef' = IF accept THEN KeepRecent(Enqueue(eosQueueRef, t), t)
                       ELSE eosQueueRef
     /\ lastEosRef' = IF accept THEN Some(t) ELSE lastEosRef
     /\ ends' = IF accept THEN Append(ends, t) ELSE ends
  /\ isSpeakingRef' = FALSE
  /\ speakStartRef' = Null
  /\ localSilenceTimerRef' = Null
  /\ resumed' = FALSE
  /\ UNCHANGED <<rev, ema, statVars, agentVars, remoteVars, nStarts, used,
                 otherVars>>

(* ------------------------------------------------------------------ *)
(* Pairing a remote start with a pending local end marker               *)
(* ------------------------------------------------------------------ *)
\* variant: no lower limit on the gap
QualifyingNoMinGap(q, t1) == {t \in SeqSet(q) : t1 - t <= MaxGapMs}

\* [...q].filter((t) => now - t >= MIN && now - t <= MAX)
Qualifying(q, t1) == {t \in SeqSet(q) : t1 - t >= MinGapMs /\ t1 - t <= MaxGapMs}

\* variant: sorted ascending, the oldest one is taken
PickOldest(S) == IF S = {} THEN Null ELSE Some(MinOf(S))

\* .sort((a, b) => b - a)[0]: the largest one, undefined when there is none
PickMarker(S) == IF S = {} THEN Null ELSE Some(MaxOf(S))

\* variant: t >= marker, the used marker stays in the queue
DropUsedKeepsMarker(q, marker, t1) ==
  KeepRecent(SelectSeq(q, LAMBDA t : t >= marker), t1)

\* variant: only the used marker is removed, older ones stay
DropUsedKeepsOlder(q, marker, t1) ==
  KeepRecent(SelectSeq(q, LAMBDA t : t # marker), t1)

\* q.filter((t) => t > marker && now - t <= 12_000)
DropUsed(q, marker, t1) == KeepRecent(SelectSeq(q, LAMBDA t : t > marker), t1)

\* variant: the average is set to the measurement just taken
RecordAverageIsLast(latency) ==
  LET h == Append(historyRef, latency) IN
  /\ historyRef' = h
  /\ latestLatency' = Some(latency)
  /\ averageLatency' = Some([sum |-> latency, n |-> 1])

\* variant: the average is not set
RecordWithoutAverage(latency) ==
  LET h == Append(historyRef, latency) IN
  /\ historyRef' = h
  /\ latestLatency' = Some(latency)
  /\ averageLatency' = averageLatency

\* history.push(latency); setLatestLatency(latency); setAverageLatency(sum / length)
Record(latency) ==
  LET h == Append(historyRef, latency) IN
  /\ historyRef' = h
  /\ latestLatency' = Some(latency)
  /\ averageLatency' = Some([sum |-> SumSeq(h), n |-> Len(h)])

\* variant: a lookup that finds nothing prunes the queue all the same
CorrelatePruneOnMiss(t1, t2) ==
  LET marker == PickMarker(Qualifying(eosQueueRef, t1)) IN
  IF Truthy(marker)
  THEN /\ Len(historyRef) < MaxHist
       /\ Record(t2 - Val(marker))
       /\ eosQueueRef' = DropUsed(eosQueueRef, Val(marker), t1)
       /\ used' = Append(used, Val(marker))
  ELSE /\ eosQueueRef' = KeepRecent(eosQueueRef, t1)
       /\ UNCHANGED <<statVars, used>>

\* t1 is the Date.now() the window is tested with, t2 the one the latency
\* is computed with
Correlate(t1, t2) ==
  LET marker == PickMarker(Qualifying(eosQueueRef, t1)) IN
  IF Truthy(marker)
  THEN /\ Len(historyRef) < MaxHist
       /\ Record(t2 - Val(marker))
       /\ eosQueueRef' = DropUsed(eosQueueRef, Val(marker), t1)
       /\ used' = Append(used, Val(marker))
  ELSE UNCHANGED <<statVars, eosQueueRef, used>>

(* ------------------------------------------------------------------ *)
(* Agent-state revision: the effect on [agentState]                     *)
(* ------------------------------------------------------------------ *)
\* variant: every change of the agent state counts as a start
IsRemoteStartAnyChange(prev, s) == TRUE

\* prev !== 'speaking' && agentState === 'speaking'
IsRemoteStart(prev, s) == prev # "speaking" /\ s = "speaking"

AgentStateEffect(s) ==
  /\ rev = "agent"
  /\ s # agentState
  /\ agentState' = s
  /\ prevAgentStateRef' = s
  /\ IF IsRemoteStart(prevAgentStateRef, s)
     THEN /\ nStarts < MaxStarts
          /\ nStarts' = nStarts + 1
          /\ Correlate(now, now)
     ELSE UNCHANGED <<statVars, eosQueueRef, used, nStarts>>
  /\ UNCHANGED <<rev, now, ticks, localVars, remoteVars, ends, resumed, otherVars>>

(* ------------------------------------------------------------------ *)
(* Dual-VAD revision: one animation frame of rloop, and its timer       *)
(* ------------------------------------------------------------------ *)
\* variant: rloop smooths into the let ema of the local loop
RemoteSharesEma(e) == e

\* what rloop leaves in the local loop's ema: rema is its own let
RemoteKeepsLocalEma(e) == ema

\* variant: energy rising again does not cancel the reset timer
RemoteTimerNoCancel(speaking, rsp1, t) ==
  IF ~speaking /\ rsp1 /\ IsNull(silenceTimer) THEN Some(t + R_SILENCE_MS)
  ELSE silenceTimer

\* the reset timer after the frame: armed on silence while remoteSpeaking,
\* cleared when the energy is above R_THR again
RemoteTimer(speaking, rsp1, t) ==
  IF ~speaking /\ rsp1
  THEN (IF IsNull(silenceTimer) THEN Some(t + R_SILENCE_MS) ELSE silenceTimer)
  ELSE (IF speaking /\ ~IsNull(silenceTimer) THEN Null ELSE silenceTimer)

RemoteFrame(avg) ==
  LET e == Smooth(R_ALPHA_PCT, avg, rema)
      speaking == Above(e, R_THR)
      rising == speaking /\ ~remoteSpeakingRef
      rsp1 == IF rising THEN TRUE ELSE remoteSpeakingRef
  IN
  /\ rev = "dual"
  /\ rema' = e
  /\ remoteSpeakingRef' = rsp1
  /\ IF rising
     THEN /\ nStarts < MaxStarts
          /\ nStarts' = nStarts + 1
          /\ IF Truthy(PickMarker(Qualifying(eosQueueRef, now)))
             THEN \* recordLatencyFromMarker reads Date.now() again: the clock
                  \* may have moved on since rloop read it
                  \/ /\ Correlate(now, now)
                     /\ UNCHANGED <<now, ticks>>
                  \/ /\ ticks.small < MaxSmallTicks
                     /\ MayAdvance
                     /\ TimersAllow(Quantum)
                     /\ Correlate(now, now + Quantum)
                     /\ now' = now + Quantum
                     /\ ticks' = [ticks EXCEPT !.small = @ + 1]
             ELSE /\ Correlate(now, now)
                  /\ UNCHANGED <<now, ticks>>
     ELSE UNCHANGED <<statVars, eosQueueRef, used, nStarts, now, ticks>>
  /\ silenceTimer' = RemoteTimer(speaking, rsp1, now)
  /\ ema' = RemoteKeepsLocalEma(e)
  /\ UNCHANGED <<rev, isSpeakingRef, speakStartRef, lastEosRef,
                 localSilenceTimerRef, agentVars, ends, resumed, otherVars>>

RemoteTimerFire ==
  /\ rev = "dual"
  /\ ~IsNull(silenceTimer)
  /\ RunAt(Val(silenceTimer), localSilenceTimerRef)
  /\ remoteSpeakingRef' = FALSE
  /\ silenceTimer' = Null
  /\ UNCHANGED <<rev, localVars, eosQueueRef, statVars,
                 agentVars, rema, ends, nStarts, used, resumed, otherVars>>

(* ------------------------------------------------------------------ *)
(* Agent-state revision: the local VAD effect on [room, localPubsSize]  *)
(* and the publications it depends on                                   *)
(* ------------------------------------------------------------------ *)
\* bound of the model: local publications besides the mic
MaxOtherPubs == 1

\* variant: the cleanup only cancels the frame loop
CleanupKeepsTimer(timer) == timer

\* the effect's cleanup: clearTimer(localSilenceTimerRef.current) and
\* localSilenceTimerRef.current = null; the value the ref is left with
Cleanup(timer) == Null

\* variant: attaches whether or not the mic publication has a track
MicTrackAssumed == TRUE

\* micPub && micPub.track && 'mediaStreamTrack' in micPub.track
MicTrackFound == micPub = "bound"

\* variant: attaching starts with a fresh lastEosRef
AttachForgetsEos(eos) == Null

\* what attaching leaves in lastEosRef: the effect does not write the ref
AttachKeepsEos(eos) == eos

\* a render sees another localPubsSize: React runs the cleanup the last run
\* returned, if it returned one, then the effect again
LocalVadEffect ==
  /\ rev = "agent"
  /\ LocalPubsSize # depsSeen
  /\ depsSeen' = LocalPubsSize
  /\ localSilenceTimerRef' =
       IF attached THEN Cleanup(localSilenceTimerRef) ELSE localSilenceTimerRef
  /\ cancelled' = IF attached THEN localSilenceTimerRef ELSE cancelled
  /\ resumed' = IF attached THEN FALSE ELSE resumed
  /\ attached' = MicTrackFound
  /\ ema' = IF MicTrackFound THEN 0 ELSE ema
  /\ lastAttach' = IF MicTrackFound THEN Some(now) ELSE lastAttach
  /\ lastEosRef' = IF MicTrackFound THEN AttachKeepsEos(lastEosRef) ELSE lastEosRef
  /\ UNCHANGED <<rev, now, ticks, isSpeakingRef, speakStartRef, eosQueueRef,
                 statVars, agentVars, remoteVars, ends, nStarts, used,
                 micPub, otherPubs, playVars, welcomeVars, twinVars, rawVars>>

lifeFrame == <<rev, now, ticks, localVars, eosQueueRef, statVars, agentVars,
               remoteVars, ends, nStarts, used, resumed, depsSeen, attached,
               cancelled, lastAttach, playVars, welcomeVars, twinVars, rawVars>>

\* the mic is published, with its track or before the track is there
PublishMic(withTrack) ==
  /\ micPub = "none"
  /\ micPub' = IF withTrack THEN "bound" ELSE "pending"
  /\ UNCHANGED <<otherPubs, lifeFrame>>

\* the track of an existing mic publication arrives: the size stays
BindTrack ==
  /\ micPub = "pending"
  /\ micPub' = "bound"
  /\ UNCHANGED <<otherPubs, lifeFrame>>

UnpublishMic ==
  /\ micPub # "none"
  /\ micPub' = "none"
  /\ UNCHANGED <<otherPubs, lifeFrame>>

\* another local track (camera, screen share) comes or goes
PublishOther ==
  /\ otherPubs < MaxOtherPubs
  /\ otherPubs' = otherPubs + 1
  /\ UNCHANGED <<micPub, lifeFrame>>

UnpublishOther ==
  /\ otherPubs > 0
  /\ otherPubs' = otherPubs - 1
  /\ UNCHANGED <<micPub, lifeFrame>>

\* a mount that may find the mic missing or without its track
InitLife ==
  /\ rev = "agent"
  /\ Mounted
  /\ micPub \in {"none", "pending", "bound"}
  /\ otherPubs = 0
  /\ depsSeen = LocalPubsSize
  /\ attached = MicTrackFound

NextLife ==
  \/ Tick
  \/ \E avg \in Levels : LocalFrame(avg)
  \/ LocalTimerFire
  \/ LocalVadEffect
  \/ \E withTrack \in BOOLEAN : PublishMic(withTrack)
  \/ BindTrack
  \/ UnpublishMic
  \/ PublishOther
  \/ UnpublishOther

SpecLife == InitLife /\ [][NextLife]_vars

\* every change of localPubsSize is followed by a render, which runs the
\* effect; nothing is assumed of the publications
SpecLifeFair == SpecLife /\ WF_vars(LocalVadEffect)

(* ------------------------------------------------------------------ *)
(* 'play'-listener revision (conversation-latency-vad.tsx lines 1-227,  *)
(* the same logic in unnamed/part_007): the local VAD effect on         *)
(* [room, localPubsSize, isUserSpeaking]                                *)
(* ------------------------------------------------------------------ *)
\* const speaking = avg > 3
PLAY_THR == 3
\* setTimeout(..., 400)
PLAY_SILENCE_MS == 400

\* the effect's cleanup: cancelAnimationFrame(raf) and ctx.close(); whether
\* a pending timeout is still pending after it
PlayCleanup(live) == live

\* the render that follows a change of isUserSpeaking or of localPubsSize:
\* the cleanup of the last run, then the effect again
PlayRerun(live, t) ==
  /\ depsSeen' = LocalPubsSize
  /\ attached' = MicTrackFound
  /\ cancelled' = IF attached /\ live THEN silenceTimerRef ELSE cancelled
  /\ lastAttach' = IF MicTrackFound THEN Some(t) ELSE lastAttach

\* the 'play' listener revision and its ref-based successor, part_007
PlayRevs == {"play", "play007"}

playFrame == <<rev, isSpeakingRef, speakStartRef, lastEosRef,
               localSilenceTimerRef, eosQueueRef, statVars, agentVars,
               remoteVars, ends, nStarts, used, resumed, micPub, otherPubs,
               playListener, welcomeVars, twinVars, rawVars>>

\* one animation frame of loop; isUserSpeaking is the value of the render
\* whose effect scheduled the loop.  There is no smoothing: ema holds the
\* avg the last frame read
PlayFrame(avg) ==
  LET speaking == avg > PLAY_THR IN
  /\ rev \in PlayRevs
  /\ attached
  /\ ema' = avg
  /\ IF speaking /\ ~isUserSpeaking
     THEN /\ isUserSpeaking' = TRUE
          /\ timerLive' = IF ~IsNull(silenceTimerRef) THEN FALSE ELSE timerLive
          /\ UNCHANGED silenceTimerRef
          /\ PlayRerun(FALSE, now)
     ELSE IF ~speaking /\ isUserSpeaking /\ IsNull(silenceTimerRef)
     THEN /\ silenceTimerRef' = Some(now + PLAY_SILENCE_MS)
          /\ timerLive' = TRUE
          /\ UNCHANGED <<isUserSpeaking, depsSeen, attached, cancelled, lastAttach>>
     ELSE UNCHANGED <<isUserSpeaking, silenceTimerRef, timerLive, depsSeen,
                      attached, cancelled, lastAttach>>
  /\ UNCHANGED <<now, ticks, userEndTime, playFrame>>

\* the timeout's callback: setIsUserSpeaking(false); setUserEndTime(Date.now());
\* the ref keeps the id of the timeout
PlayTimerFire ==
  /\ rev \in PlayRevs
  /\ timerLive
  /\ RunAt(Val(silenceTimerRef), Null)
  /\ timerLive' = FALSE
  /\ isUserSpeaking' = FALSE
  /\ userEndTime' = Some(now')
  /\ IF isUserSpeaking \/ LocalPubsSize # depsSeen
     THEN PlayRerun(FALSE, Val(silenceTimerRef))
     ELSE UNCHANGED <<depsSeen, attached, cancelled, lastAttach>>
  /\ UNCHANGED <<ema, silenceTimerRef, playFrame>>

\* a render sees another localPubsSize
PlayVadEffect ==
  /\ rev \in PlayRevs
  /\ LocalPubsSize # depsSeen
  /\ timerLive' = IF attached THEN PlayCleanup(timerLive) ELSE timerLive
  /\ PlayRerun(timerLive, now)
  /\ UNCHANGED <<now, ticks, ema, isUserSpeaking, silenceTimerRef, userEndTime,
                 playFrame>>

\* what neither the playback listener nor its attachment writes
listenerFrame == <<rev, now, ticks, localVars, eosQueueRef, agentVars,
                   remoteVars, ends, resumed, lifeVars, isUserSpeaking,
                   silenceTimerRef, timerLive, userEndTime, welcomeVars,
                   twinVars, rawVars>>

\* Effect A, on [room, remoteParticipants.length]: the cleanup of its last
\* run removes the listener; attachPlaybackListener of this render is called
\* if a subscribed remote audio track is found, and its handlePlay closes
\* over this render's userEndTime
EffectA(found) ==
  /\ rev \in PlayRevs
  /\ playListener' = IF found THEN Some(userEndTime) ELSE Null
  /\ playListener' # playListener
  /\ UNCHANGED <<listenerFrame, statVars, nStarts, used>>

\* Effect B, on [room]: onTrackSubscribed calls the attachPlaybackListener
\* of the render in which the effect ran, the one after mount, whose
\* userEndTime is null
TrackSubscribed ==
  /\ rev \in PlayRevs
  /\ playListener' = Some(Null)
  /\ playListener' # playListener
  /\ UNCHANGED <<listenerFrame, statVars, nStarts, used>>

\* the marker handlePlay of the 'play' revision reads: const userEndTime of
\* the render that attached the listener
ClosureMarker == Val(playListener)

\* variant of RefMarker: part_007's handlePlay reading the const of the
\* render that attached the listener instead of the ref
RefMarkerFromClosure == Val(playListener)

\* the marker handlePlay of part_007 reads: userEndTimeRef.current, which
\* the timer's callback sets together with the state userEndTime and the
\* effect on [userEndTime] sets again
RefMarker == userEndTime

\* the 'play' event of the probe audio element
HandlePlay ==
  LET marker == IF rev = "play007" THEN RefMarker ELSE ClosureMarker IN
  /\ rev \in PlayRevs
  /\ ~IsNull(playListener)
  /\ nStarts < MaxStarts
  /\ nStarts' = nStarts + 1
  /\ IF Truthy(marker)
     THEN /\ Len(historyRef) < MaxHist
          /\ Record(now - Val(marker))
          /\ used' = Append(used, Val(marker))
     ELSE UNCHANGED <<statVars, used>>
  /\ UNCHANGED <<listenerFrame, playListener>>

InitPlay ==
  /\ rev \in PlayRevs
  /\ Mounted
  /\ micPub \in {"none", "pending", "bound"}
  /\ otherPubs = 0
  /\ depsSeen = LocalPubsSize
  /\ attached = MicTrackFound

NextPlay ==
  \/ Tick
  \/ \E avg \in Levels : PlayFrame(avg)
  \/ PlayTimerFire
  \/ PlayVadEffect
  \/ \E found \in BOOLEAN : EffectA(found)
  \/ TrackSubscribed
  \/ HandlePlay
  \/ \E withTrack \in BOOLEAN : PublishMic(withTrack)
  \/ BindTrack
  \/ UnpublishMic
  \/ PublishOther
  \/ UnpublishOther

SpecPlay == InitPlay /\ [][NextPlay]_vars

(* ------------------------------------------------------------------ *)
(* IsSpeakingChanged revision (welcome.tsx lines 47-268): the local VAD *)
(* loop is the one of LocalFrame, with localSilenceTimerRef standing    *)
(* for its silenceTimerRef; one marker, eosMsRef; clock readings of     *)
(* performance.now() are whole milliseconds                             *)
(* ------------------------------------------------------------------ *)
\* spokeFor >= MIN_SPEAK_MS && (!last || now - last >= REFRACT_MS)
WelcomeAcceptEos(spokeFor, t1) ==
  /\ spokeFor >= MinSpeakMs
  /\ (~Truthy(eosMsRef) \/ t1 - Val(eosMsRef) >= RefractMs)

\* the silence timer's callback
WelcomeTimerFire ==
  /\ rev = "welcome"
  /\ ~IsNull(localSilenceTimerRef)
  /\ RunAt(Val(localSilenceTimerRef), Null)
  /\ LET t == Val(localSilenceTimerRef)
         started == OrElse(speakStartRef, t)
         spokeFor == t - started
         accept == WelcomeAcceptEos(spokeFor, t)
     IN
     /\ accept => Len(ends) < MaxEnds
     /\ eosMsRef' = IF accept THEN Some(t) ELSE eosMsRef
     /\ ends' = IF accept THEN Append(ends, t) ELSE ends
  /\ isSpeakingRef' = FALSE
  /\ speakStartRef' = Null
  /\ localSilenceTimerRef' = Null
  /\ resumed' = FALSE
  /\ UNCHANGED <<rev, ema, lastEosRef, eosQueueRef, statVars, agentVars,
                 remoteVars, nStarts, used, lifeVars, playVars, twinVars, rawVars>>

\* handler of ParticipantEvent.IsSpeakingChanged; speaking is rp.isSpeaking
IsSpeakingChanged(speaking) ==
  /\ rev = "welcome"
  /\ speaking # remoteSpeakingRef
  /\ remoteSpeakingRef' = speaking
  /\ IF speaking
     THEN /\ nStarts < MaxStarts
          /\ nStarts' = nStarts + 1
          /\ IF ~IsNull(eosMsRef)
             THEN /\ Len(historyRef) < MaxHist
                  /\ Record(now - Val(eosMsRef))
                  /\ eosMsRef' = Null
                  /\ used' = Append(used, Val(eosMsRef))
             ELSE UNCHANGED <<statVars, eosMsRef, used>>
     ELSE UNCHANGED <<statVars, eosMsRef, used, nStarts>>
  /\ UNCHANGED <<rev, now, ticks, localVars, eosQueueRef, agentVars, rema,
                 silenceTimer, ends, resumed, lifeVars, playVars, twinVars, rawVars>>

InitWelcome ==
  /\ rev = "welcome"
  /\ Mounted
  /\ micPub = "bound"
  /\ otherPubs = 0
  /\ depsSeen = LocalPubsSize
  /\ attached = TRUE

NextWelcome ==
  \/ Tick
  \/ LongTick
  \/ \E avg \in Levels : LocalFrame(avg)
  \/ WelcomeTimerFire
  \/ \E speaking \in BOOLEAN : IsSpeakingChanged(speaking)

SpecWelcome == InitWelcome /\ [][NextWelcome]_vars

(* ------------------------------------------------------------------ *)
(* Agent-state revision on the clock of end-to-end scenario A: the      *)
(* callbacks run at the instants the scenario names                     *)
(* ------------------------------------------------------------------ *)
\* the readings of Date.now() at which something happens: the rise, the
\* drop, the two candidate times of the debounce, the remote start
ScenarioTimes == {1000, 1800, 2200, 2250, 2500}

\* the clock reaches the next instant; an armed timer is not stepped over
ScenarioTick ==
  /\ \E t \in ScenarioTimes :
       /\ t > now
       /\ TimersAllow(t - now)
       /\ now' = t
  /\ UNCHANGED <<rev, ticks, localVars, eosQueueRef, statVars, agentVars,
                 remoteVars, ends, nStarts, used, resumed, otherVars>>

InitScenario ==
  /\ rev = "agent"
  /\ Mounted
  /\ micPub = "bound"
  /\ otherPubs = 0
  /\ depsSeen = LocalPubsSize
  /\ attached = TRUE

NextScenario ==
  \/ ScenarioTick
  \/ \E avg \in Levels : LocalFrame(avg)
  \/ LocalTimerFire
  \/ \E s \in AgentStates : AgentStateEffect(s)

SpecScenario == InitScenario /\ [][NextScenario]_vars

(* ------------------------------------------------------------------ *)
(* A long session: the recording code run again and again               *)
(* ------------------------------------------------------------------ *)
\* bound of the model: measurements recorded in one long session
MaxRecords == 201

\* recordLatencyFromMarker of part_004, the same statements as lines 401-407
\* of the agent-state revision, for a marker of the youngest age the window
\* lets through
RecordLatencyFromMarker ==
  /\ Len(historyRef) < MaxRecords
  /\ Record(MinGapMs)
  /\ UNCHANGED <<rev, now, ticks, localVars, eosQueueRef, agentVars,
                 remoteVars, ends, nStarts, used, resumed, otherVars>>

InitRecord ==
  /\ rev \in Revs
  /\ Mounted
  /\ micPub = "bound"
  /\ otherPubs = 0
  /\ depsSeen = LocalPubsSize
  /\ attached = TRUE

SpecRecord == InitRecord /\ [][RecordLatencyFromMarker]_vars

(* ------------------------------------------------------------------ *)
(* Two instances of the agent-state revision side by side, each with    *)
(* its own let ema, refs and state, fed the same frames, the same agent *)
(* states and the same clock.  The callbacks are those of LocalFrame,   *)
(* LocalTimerFire and AgentStateEffect, written as functions of the     *)
(* instance's state d.                                                  *)
(* ------------------------------------------------------------------ *)
\* variant: let ema at module level, one cell for every instance: an
\* instance smooths from what the other one wrote last
SharedEma(d, other) == other.ema

\* let ema = 0 inside the effect: the cell an instance smooths from is its
\* own
OwnEma(d, other) == d.ema

\* loop, one frame: ema0 is the cell's value before, t is Date.now()
DetectorFrame(d, ema0, avg, t) ==
  LET e == Smooth(AlphaPct, avg, ema0)
      speaking == Above(e, SpeakThr)
      rising == speaking /\ ~d.isSpeaking
      isSp1 == IF rising THEN TRUE ELSE d.isSpeaking
      timer1 == IF rising THEN Null ELSE d.timer
      falling == ~speaking /\ isSp1
  IN [d EXCEPT !.ema = e,
               !.isSpeaking = isSp1,
               !.speakStart = IF rising THEN Some(t) ELSE @,
               !.timer = IF falling /\ IsNull(timer1) THEN Some(t + SilenceMs)
                         ELSE timer1]

\* the silence timer's callback at t
DetectorTimer(d, t) ==
  LET started == OrElse(d.speakStart, t)
      spokeFor == t - started
      accept == /\ spokeFor >= MinSpeakMs
                /\ (Truthy(d.lastEos) => t - Val(d.lastEos) >= RefractMs)
  IN [d EXCEPT !.queue = IF accept THEN KeepRecent(Enqueue(@, t), t) ELSE @,
               !.lastEos = IF accept THEN Some(t) ELSE @,
               !.ends = IF accept THEN Append(@, t) ELSE @,
               !.isSpeaking = FALSE,
               !.speakStart = Null,
               !.timer = Null]

\* the effect on [agentState] at t, the agent state now being s
EngineAgentState(d, s, t) ==
  LET marker == PickMarker(Qualifying(d.queue, t))
      start == IsRemoteStart(d.prev, s)
      h == Append(d.history, t - Val(marker))
  IN IF start /\ Truthy(marker)
     THEN [d EXCEPT !.prev = s,
                    !.starts = @ + 1,
                    !.history = h,
                    !.latest = Some(t - Val(marker)),
                    !.average = Some([sum |-> SumSeq(h), n |-> Len(h)]),
                    !.queue = DropUsed(@, Val(marker), t)]
     ELSE [d EXCEPT !.prev = s,
                    !.starts = IF start THEN @ + 1 ELSE @]

twinFrame == <<rev, localVars, eosQueueRef, statVars, agentVars, remoteVars,
               ends, nStarts, used, resumed, lifeVars, playVars, welcomeVars,
               rawVars>>

\* the armed timers of the instances
TwinDue == {Val(twin[i].timer) : i \in {j \in 1..2 : ~IsNull(twin[j].timer)}}

\* both instances get the same frame; the second runs its loop after the
\* first
TwinFrame(avg) ==
  LET d1 == DetectorFrame(twin[1], OwnEma(twin[1], twin[2]), avg, now)
      d2 == DetectorFrame(twin[2], OwnEma(twin[2], d1), avg, now)
  IN /\ twin' = <<d1, d2>>
     /\ UNCHANGED <<now, ticks, twinFrame>>

\* the earliest armed timer is due: the callback of every instance whose
\* timer is due then runs
TwinTimerFire ==
  /\ TwinDue # {}
  /\ \A i \in 1..2 : Len(twin[i].ends) < MaxEnds
  /\ LET t == MinOf(TwinDue) IN
     /\ RunAt(t, Null)
     /\ twin' = [i \in 1..2 |-> IF twin[i].timer = Some(t)
                                THEN DetectorTimer(twin[i], t) ELSE twin[i]]
  /\ UNCHANGED twinFrame

\* useVoiceAssistant() reports another state to both instances
TwinAgentState(s) ==
  /\ s # twin[1].prev
  /\ \A i \in 1..2 : twin[i].starts < MaxStarts /\ Len(twin[i].history) < MaxHist
  /\ twin' = [i \in 1..2 |-> EngineAgentState(twin[i], s, now)]
  /\ UNCHANGED <<now, ticks, twinFrame>>

\* the clock both instances read advances; an armed timer is not stepped over
TwinTick ==
  /\ ticks.small < MaxSmallTicks
  /\ MayAdvance
  /\ \A t \in TwinDue : t >= now + Quantum
  /\ now' = now + Quantum
  /\ ticks' = [ticks EXCEPT !.small = @ + 1]
  /\ UNCHANGED <<twin, twinFrame>>

InitTwin ==
  /\ rev = "agent"
  /\ Mounted
  /\ micPub = "bound"
  /\ otherPubs = 0
  /\ depsSeen = LocalPubsSize
  /\ attached = TRUE

NextTwin ==
  \/ TwinTick
  \/ \E avg \in Levels : TwinFrame(avg)
  \/ TwinTimerFire
  \/ \E s \in AgentStates : TwinAgentState(s)

SpecTwin == InitTwin /\ [][NextTwin]_vars

(* ------------------------------------------------------------------ *)
(* Raw-threshold dual-VAD revision (session-view.tsx lines 623-946): no *)
(* smoothing, one end marker userEndTimeRef, remote start taken from a  *)
(* raw threshold on the avatar track                                    *)
(* ------------------------------------------------------------------ *)
RAW_SPEAK_THR == 3
RAW_SILENCE_MS == 450
SPOKE_RECENT_MS == 8000
RAW_KEEP_MS == 12000
REM_SPEAK_THR == 5
REM_SILENCE_MS == 300

\* userLastSpokeAtRef.current && Date.now() - userLastSpokeAtRef.current
\* < SPOKE_RECENT_MS
SpokeRecently(t) ==
  Truthy(userLastSpokeAtRef) /\ t - Val(userLastSpokeAtRef) < SPOKE_RECENT_MS

rawFrame == <<rev, ema, isSpeakingRef, speakStartRef, lastEosRef, eosQueueRef,
              agentVars, rema, lifeVars, playVars, welcomeVars, twinVars>>

\* one animation frame of loop
RawFrame(avg) ==
  LET speaking == avg > RAW_SPEAK_THR
      rising == speaking /\ ~isUserSpeakingRef
      isSp1 == IF rising THEN TRUE ELSE isUserSpeakingRef
      timer1 == IF rising THEN Null ELSE localSilenceTimerRef
      falling == ~speaking /\ isSp1
  IN
  /\ rev = "raw"
  /\ attached
  /\ isUserSpeakingRef' = isSp1
  /\ userLastSpokeAtRef' = IF rising THEN Some(now) ELSE userLastSpokeAtRef
  /\ localSilenceTimerRef' =
       IF falling /\ IsNull(timer1) THEN Some(now + RAW_SILENCE_MS) ELSE timer1
  /\ resumed' = IF falling /\ IsNull(timer1) THEN FALSE
                ELSE IF speaking /\ ~IsNull(timer1) THEN TRUE
                ELSE resumed
  /\ UNCHANGED <<now, ticks, userEndTimeRef, statVars, remoteSpeakingRef,
                 silenceTimer, ends, nStarts, used, rawFrame>>

\* the silence timer's callback
RawTimerFire ==
  /\ rev = "raw"
  /\ ~IsNull(localSilenceTimerRef)
  /\ RunAt(Val(localSilenceTimerRef), silenceTimer)
  /\ LET t == Val(localSilenceTimerRef) IN
     /\ userEndTimeRef' = IF SpokeRecently(t) THEN Some(t) ELSE userEndTimeRef
     /\ ends' = IF SpokeRecently(t) THEN Append(ends, t) ELSE ends
  /\ isUserSpeakingRef' = FALSE
  /\ localSilenceTimerRef' = Null
  /\ resumed' = FALSE
  /\ UNCHANGED <<userLastSpokeAtRef, statVars, remoteSpeakingRef, silenceTimer,
                 nStarts, used, rawFrame>>

\* computeAndRecordLatency at t
ComputeAndRecordLatency(t) ==
  IF ~Truthy(userEndTimeRef) \/ t - Val(userEndTimeRef) > RAW_KEEP_MS
  THEN UNCHANGED <<statVars, userEndTimeRef, used>>
  ELSE /\ Len(historyRef) < MaxHist
       /\ Record(t - Val(userEndTimeRef))
       /\ userEndTimeRef' = Null
       /\ used' = Append(used, Val(userEndTimeRef))

\* one animation frame of rloop
RawRemoteFrame(avg) ==
  LET speaking == avg > REM_SPEAK_THR
      rising == speaking /\ ~remoteSpeakingRef
      rsp1 == IF rising THEN TRUE ELSE remoteSpeakingRef
  IN
  /\ rev = "raw"
  /\ remoteSpeakingRef' = rsp1
  /\ IF rising
     THEN /\ nStarts < MaxStarts
          /\ nStarts' = nStarts + 1
          /\ ComputeAndRecordLatency(now)
     ELSE UNCHANGED <<statVars, userEndTimeRef, used, nStarts>>
  /\ silenceTimer' =
       IF ~speaking /\ rsp1
       THEN (IF IsNull(silenceTimer) THEN Some(now + REM_SILENCE_MS)
             ELSE silenceTimer)
       ELSE (IF speaking /\ ~IsNull(silenceTimer) THEN Null ELSE silenceTimer)
  /\ UNCHANGED <<now, ticks, isUserSpeakingRef, userLastSpokeAtRef,
                 localSilenceTimerRef, ends, resumed, rawFrame>>

\* the callback of rloop's timer
RawRemoteTimerFire ==
  /\ rev = "raw"
  /\ ~IsNull(silenceTimer)
  /\ RunAt(Val(silenceTimer), localSilenceTimerRef)
  /\ remoteSpeakingRef' = FALSE
  /\ silenceTimer' = Null
  /\ UNCHANGED <<rawVars, localSilenceTimerRef, statVars, ends, nStarts, used,
                 resumed, rawFrame>>

InitRaw ==
  /\ rev = "raw"
  /\ Mounted
  /\ micPub = "bound"
  /\ otherPubs = 0
  /\ depsSeen = LocalPubsSize
  /\ attached = TRUE

NextRaw ==
  \/ Tick
  \/ LongTick
  \/ \E avg \in Levels : RawFrame(avg)
  \/ RawTimerFire
  \/ \E avg \in RemoteLevels : RawRemoteFrame(avg)
  \/ RawRemoteTimerFire

SpecRaw == InitRaw /\ [][NextRaw]_vars

(* ------------------------------------------------------------------ *)
(* A long session of the agent-state revision: a user who talks in      *)
(* utterances that follow one another without a pause, each of          *)
(* SpeechMs, a few of them of ShortSpeechMs.  The callbacks are         *)
(* DetectorFrame, DetectorTimer and EngineAgentState applied to the     *)
(* component's own refs and state.                                      *)
(* ------------------------------------------------------------------ *)
\* bounds of the model: how long an utterance lasts, how many are short,
\* and how long the session lasts
SpeechMs == 800
ShortSpeechMs == 400
MaxShortUtterances == 2
MaxSessionMs == 14400

\* the refs and state of the component as one record
Here ==
  [ema |-> ema, isSpeaking |-> isSpeakingRef, speakStart |-> speakStartRef,
   lastEos |-> lastEosRef, timer |-> localSilenceTimerRef,
   queue |-> eosQueueRef, ends |-> ends, history |-> historyRef,
   latest |-> latestLatency, average |-> averageLatency,
   prev |-> prevAgentStateRef, starts |-> nStarts]

\* the refs and state after a callback left them as d
Put(d) ==
  /\ ema' = d.ema
  /\ isSpeakingRef' = d.isSpeaking
  /\ speakStartRef' = d.speakStart
  /\ lastEosRef' = d.lastEos
  /\ localSilenceTimerRef' = d.timer
  /\ eosQueueRef' = d.queue
  /\ ends' = d.ends
  /\ historyRef' = d.history
  /\ latestLatency' = d.latest
  /\ averageLatency' = d.average
  /\ prevAgentStateRef' = d.prev
  /\ nStarts' = d.starts

sessionFrame == <<rev, remoteVars, used, resumed, otherVars>>

\* one animation frame of loop; the user does not fall silent at the very
\* instant the utterance began
SessionFrame(avg) ==
  /\ (avg = 0 /\ isSpeakingRef) => now > Val(speakStartRef)
  /\ Put(DetectorFrame(Here, ema, avg, now))
  /\ UNCHANGED <<now, ticks, agentState, sessionFrame>>

\* the silence timer's callback, at the time the timer is due
SessionTimerFire ==
  /\ ~IsNull(localSilenceTimerRef)
  /\ Val(localSilenceTimerRef) <= MaxSessionMs
  /\ now' = Val(localSilenceTimerRef)
  /\ ticks' = [ticks EXCEPT !.jump = @ + 1]
  /\ Put(DetectorTimer(Here, Val(localSilenceTimerRef)))
  /\ UNCHANGED <<agentState, sessionFrame>>

\* the user speaks for d ms: the clock advances once in an utterance, and
\* not while a timer is armed; k names the step size
SessionSpeech(d, k) ==
  /\ isSpeakingRef
  /\ IsNull(localSilenceTimerRef)
  /\ now = Val(speakStartRef)
  /\ now + d <= MaxSessionMs
  /\ now' = now + d
  /\ ticks' = [ticks EXCEPT ![k] = @ + 1]
  /\ UNCHANGED <<localVars, eosQueueRef, statVars, agentVars, ends, nStarts,
                 sessionFrame>>

SessionLongSpeech == SessionSpeech(SpeechMs, "long")
SessionShortSpeech ==
  /\ ticks.small < MaxShortUtterances
  /\ SessionSpeech(ShortSpeechMs, "small")

\* useVoiceAssistant() reports another state
SessionAgentState(s) ==
  /\ s # agentState
  /\ nStarts < MaxStarts
  /\ Len(historyRef) < MaxHist
  /\ agentState' = s
  /\ Put(EngineAgentState(Here, s, now))
  /\ UNCHANGED <<now, ticks, sessionFrame>>

InitSession ==
  /\ rev = "agent"
  /\ Mounted
  /\ micPub = "bound"
  /\ otherPubs = 0
  /\ depsSeen = LocalPubsSize
  /\ attached = TRUE

NextSession ==
  \/ \E avg \in Levels : SessionFrame(avg)
  \/ SessionTimerFire
  \/ SessionLongSpeech
  \/ SessionShortSpeech
  \/ \E s \in AgentStates : SessionAgentState(s)

SpecSession == InitSession /\ [][NextSession]_vars

Next ==
  \/ Tick
  \/ LongTick
  \/ \E avg \in Levels : LocalFrame(avg)
  \/ LocalTimerFire
  \/ \E s \in AgentStates : AgentStateEffect(s)
  \/ \E avg \in RemoteLevels : RemoteFrame(avg)
  \/ RemoteTimerFire

Spec == Init /\ [][Next]_vars

(* ================================================================== *)
(* Steps, as seen from outside the callbacks                            *)
(* ================================================================== *)
\* the local silence timer's callback ran
TimerFired ==
  /\ ~IsNull(localSilenceTimerRef)
  /\ IsNull(localSilenceTimerRef')
  /\ ~isSpeakingRef'
\* an end edge was emitted
EndEmitted == Len(ends') = Len(ends) + 1
\* a remote start was processed
RemoteStart == nStarts' = nStarts + 1
\* a measurement was recorded
Measured == Len(historyRef') = Len(historyRef) + 1
\* the pending markers whose age lies in the gap window at the clock value t
InWindow(t) ==
  {m \in SeqSet(eosQueueRef) : MinGapMs <= t - m /\ t - m <= MaxGapMs}
LastOf(q) == q[Len(q)]

(* ------------------------------------------------------------------ *)
(* C1: pairing correctness.  With exactly one pending marker t0 and a   *)
(* remote start processed at t1 = now with MIN_GAP <= t1 - t0 <=        *)
(* MAX_GAP, one measurement of value t1 - t0 is recorded and the marker *)
(* leaves the queue.  Stated as the claim states it; part_004 computes  *)
(* the value from a second reading of the clock.                        *)
(* ------------------------------------------------------------------ *)
C1_PairingExact ==
  [][(RemoteStart /\ Len(eosQueueRef) = 1 /\ InWindow(now) # {})
       => /\ historyRef' = Append(historyRef, now - eosQueueRef[1])
          /\ eosQueueRef' = <<>>]_vars

(* ------------------------------------------------------------------ *)
(* C2: pairing is one-to-one.  No end marker is used for two            *)
(* measurements, every marker used was an emitted end edge, and there   *)
(* are never more measurements than end edges or than remote starts.    *)
(* ------------------------------------------------------------------ *)
C2_OneToOne ==
  /\ \A i, j \in 1..Len(used) : i # j => used[i] # used[j]
  /\ \A i \in 1..Len(used) : used[i] \in SeqSet(ends)
  /\ Len(used) = Len(historyRef)
  /\ Len(historyRef) <= Len(ends)
  /\ Len(historyRef) <= nStarts

\* two measurements were taken, from two markers, by two remote starts
C2_Witness ==
  /\ Len(historyRef) = 2
  /\ used[1] # used[2]
  /\ nStarts = 2

(* ------------------------------------------------------------------ *)
(* C3: every recorded latency lies in [MIN_GAP_MS, MAX_GAP_MS].  Stated *)
(* as the claim states it; the lower bound holds in both revisions, the *)
(* upper one only in the agent-state revision.                          *)
(* ------------------------------------------------------------------ *)
C3_ValueInWindow ==
  \A i \in 1..Len(historyRef) :
    MinGapMs <= historyRef[i] /\ historyRef[i] <= MaxGapMs

(* ------------------------------------------------------------------ *)
(* C4: tie-break.  When one or more pending markers qualify for a       *)
(* remote start, the measurement is taken from the most recent of them. *)
(* ------------------------------------------------------------------ *)
C4_TieBreak ==
  [][(RemoteStart /\ InWindow(now) # {})
       => /\ Measured
          /\ LastOf(used') = MaxOf(InWindow(now))
          /\ LastOf(historyRef') = now' - MaxOf(InWindow(now))]_vars

\* the one measurement so far used the newer of two end edges while the
\* older one, never used, was still inside the window
C4_Witness ==
  /\ Len(ends) = 2
  /\ Len(used) = 1
  /\ used[1] = ends[2]
  /\ historyRef[1] + (ends[2] - ends[1]) <= MaxGapMs

(* ------------------------------------------------------------------ *)
(* C5: the debounce absorbs micro-pauses.  Once the smoothed energy is  *)
(* above SPEAK_THR again the silence timer is cancelled: no timer is    *)
(* armed while the energy is above the threshold.  Stated as the claim  *)
(* states it.                                                           *)
(* ------------------------------------------------------------------ *)
C5_TimerCancelledOnResume ==
  ~IsNull(localSilenceTimerRef) => ~Above(ema, SpeakThr)

(* ------------------------------------------------------------------ *)
(* C6: refractory spacing.  Any two emitted end edges are at least      *)
(* REFRACTORY_MS apart.                                                 *)
(* ------------------------------------------------------------------ *)
C6_Refractory ==
  \A i, j \in 1..Len(ends) : i < j => ends[j] - ends[i] >= RefractMs

\* two end edges were emitted, and a third candidate has been turned down
\* since: the detector is idle again within the refractory window
C6_Witness ==
  /\ Len(ends) = 2
  /\ ~isSpeakingRef
  /\ IsNull(localSilenceTimerRef)
  /\ now > ends[2]
  /\ now - ends[2] < RefractMs

(* ------------------------------------------------------------------ *)
(* C7: speech of at least MIN_SPEAK_MS followed by SILENCE_MS of        *)
(* silence yields exactly one end edge.                                 *)
(* The claim as stated: when the timer fires after the energy was above *)
(* the threshold for MIN_SPEAK_MS or more and has stayed at or below it *)
(* since, an end edge stamped now is emitted.                           *)
(* ------------------------------------------------------------------ *)
C7_EndAfterSpeech ==
  [][(/\ TimerFired
      /\ ~IsNull(speakStartRef)
      /\ ~resumed
      /\ (Val(localSilenceTimerRef) - SilenceMs) - Val(speakStartRef) >= MinSpeakMs)
       => ends' = Append(ends, now')]_vars

(* C7 as amended: when the timer fires, exactly one end edge stamped      *)
(* now = speechStart + spokeFor is emitted if spokeFor >= MIN_SPEAK_MS    *)
(* and no end edge was emitted less than REFRACTORY_MS before, and none   *)
(* is emitted otherwise.                                                  *)
C7_EndIffSpokeAndRested ==
  [][TimerFired =>
       LET spokeFor == now' - OrElse(speakStartRef, now')
           rested == ends = <<>> \/ now' - LastOf(ends) >= RefractMs
       IN IF spokeFor >= MinSpeakMs /\ rested
          THEN /\ ends' = Append(ends, now')
               /\ eosQueueRef' # <<>>
               /\ LastOf(eosQueueRef') = now'
               /\ now' = Val(speakStartRef) + spokeFor
          ELSE /\ ends' = ends
               /\ eosQueueRef' = eosQueueRef]_vars

\* the timer has just fired on an utterance that qualified and emitted the
\* first end edge
C7_Witness ==
  /\ Len(ends) = 1
  /\ ends[1] = now
  /\ lastEosRef = Some(now)
  /\ ~isSpeakingRef
  /\ IsNull(localSilenceTimerRef)

(* ------------------------------------------------------------------ *)
(* C8: minimum speech duration.  An utterance whose energy was above    *)
(* the threshold for less than MIN_SPEAK_MS, followed by silence, emits *)
(* no end edge.  Stated as the claim states it: the speech lasts from   *)
(* speechStart to the falling edge that armed the timer.                *)
(* ------------------------------------------------------------------ *)
C8_ShortSpeechNoEnd ==
  [][(/\ TimerFired
      /\ ~IsNull(speakStartRef)
      /\ ~resumed
      /\ (Val(localSilenceTimerRef) - SilenceMs) - Val(speakStartRef) < MinSpeakMs)
       => ends' = ends]_vars

C10_MissChangesNothing ==
  [][(RemoteStart /\ InWindow(now) = {})
       => UNCHANGED <<eosQueueRef, historyRef, latestLatency, averageLatency>>]_vars

\* a remote start found nothing although a marker, by now older than the
\* horizon, was and still is pending
C10_Witness ==
  /\ nStarts >= 1
  /\ historyRef = <<>>
  /\ eosQueueRef # <<>>
  /\ now - eosQueueRef[1] > KeepMs

(* ------------------------------------------------------------------ *)
(* C11: teardown cancellation (agent-state revision).  The cleanup of   *)
(* the local VAD effect cancels the frame loop and an armed debounce    *)
(* timer: every step that ends with the detector torn down leaves no    *)
(* timer armed, emits no end edge and enqueues no marker.               *)
(* ------------------------------------------------------------------ *)
C11_TeardownCancels ==
  [][~attached' => /\ IsNull(localSilenceTimerRef')
                   /\ ends' = ends
                   /\ eosQueueRef' = eosQueueRef
                   /\ lastEosRef' = lastEosRef]_vars

\* a teardown cleared an armed timer, the clock has passed the time it was
\* due, the detector is still torn down and nothing was emitted
C11_Witness ==
  /\ ~attached
  /\ ~IsNull(cancelled)
  /\ now > Val(cancelled)
  /\ isSpeakingRef
  /\ ends = <<>>

(* ------------------------------------------------------------------ *)
(* C13: re-attachment keeps the refractory window (agent-state          *)
(* revision).  Across teardowns and re-attachments lastEosRef holds the *)
(* time of the last end edge emitted, and no end edge is emitted within *)
(* REFRACTORY_MS of the one before it.                                  *)
(* ------------------------------------------------------------------ *)
C13_ReattachKeepsRefractory ==
  /\ lastEosRef = (IF ends = <<>> THEN Null ELSE Some(LastOf(ends)))
  /\ \A i \in 1..Len(ends) - 1 : ends[i + 1] - ends[i] >= RefractMs

\* an end edge was emitted, the detector was attached again after it, and
\* an utterance heard since, long enough to count, is about to be turned
\* down because its timer is due inside the refractory window
C13_Witness ==
  /\ Len(ends) = 1
  /\ attached
  /\ ~IsNull(lastAttach)
  /\ Val(lastAttach) > ends[1]
  /\ ~IsNull(speakStartRef)
  /\ Val(speakStartRef) >= Val(lastAttach)
  /\ ~IsNull(localSilenceTimerRef)
  /\ Val(localSilenceTimerRef) - Val(speakStartRef) >= MinSpeakMs
  /\ Val(localSilenceTimerRef) - ends[1] < RefractMs

C15_RetryUntilAttached ==
  (micPub = "bound" /\ ~attached) ~> (attached \/ micPub # "bound")


C16_RecordAggregates ==
  [][(historyRef' # historyRef \/ latestLatency' # latestLatency
        \/ averageLatency' # averageLatency)
       => LET v == LastOf(historyRef') IN
          /\ Measured
          /\ historyRef' = Append(historyRef, v)
          /\ latestLatency' = Some(v)
          /\ ~IsNull(averageLatency')
          /\ Val(averageLatency').n > 0
          /\ Val(averageLatency').sum * Len(historyRef')
               = SumSeq(historyRef') * Val(averageLatency').n]_vars

\* two measurements of different value were recorded: last is the second,
\* the average lies strictly between them
C16_Witness ==
  /\ Len(historyRef) = 2
  /\ historyRef[1] # historyRef[2]
  /\ latestLatency = Some(historyRef[2])
  /\ Val(averageLatency).sum = historyRef[1] + historyRef[2]

(* ------------------------------------------------------------------ *)
(* C17: 'no measurement yet' is observable.  In every reachable state   *)
(* last is null iff average is null iff the history is empty.           *)
(* ------------------------------------------------------------------ *)
C17_NullTogether ==
  /\ IsNull(latestLatency) <=> IsNull(averageLatency)
  /\ IsNull(latestLatency) <=> historyRef = <<>>

\* the first measurement has been recorded after a remote start that found
\* nothing: last and average left null together
C17_Witness ==
  /\ Len(historyRef) = 1
  /\ nStarts = 2
  /\ ~IsNull(latestLatency)
  /\ ~IsNull(averageLatency)

(* ------------------------------------------------------------------ *)
(* C18: edges of one detector come in non-decreasing timestamp order.   *)
(* Each end edge emitted is stamped no earlier than every one emitted   *)
(* before it, and the pending queue is sorted in ascending time order.  *)
(* ------------------------------------------------------------------ *)
C18_QueueAscending ==
  /\ \A i, j \in 1..Len(ends) : i <= j => ends[i] <= ends[j]
  /\ \A i, j \in 1..Len(eosQueueRef) : i <= j => eosQueueRef[i] <= eosQueueRef[j]

\* two end edges were emitted and both are still pending, the older first
C18_Witness ==
  /\ Len(eosQueueRef) = 2
  /\ eosQueueRef = ends
  /\ eosQueueRef[1] < eosQueueRef[2]
  /\ used = <<>>


(* ------------------------------------------------------------------ *)
(* C20: scenario B in the IsSpeakingChanged revision.  Stated as the    *)
(* claim states it: a remote speaking start that arrives more than      *)
(* MAX_GAP_MS = 8000 ms (the MAX_AGE of the agent-state revision) after *)
(* the local end marker records no measurement.                         *)
(* ------------------------------------------------------------------ *)
C20_StaleMarkerNotPaired ==
  [][(RemoteStart /\ ~IsNull(eosMsRef) /\ now - Val(eosMsRef) > MAX_AGE)
       => UNCHANGED <<historyRef, latestLatency, averageLatency>>]_vars


(* ------------------------------------------------------------------ *)
(* C19: end-to-end scenario A (agent-state revision).                   *)
(* The claim as stated: the energy rises at 1000 and drops at 1800; the *)
(* debounce fires at 2250 and emits an end edge stamped 2250; a remote  *)
(* start at 2500 then records the one measurement 250.                  *)
(* ------------------------------------------------------------------ *)
C19_ScenarioA ==
  [][/\ (/\ TimerFired
         /\ speakStartRef = Some(1000)
         /\ localSilenceTimerRef = Some(1800 + SilenceMs)
         /\ ~resumed
         /\ ends = <<>>)
          => (now' = 2250 /\ ends' = <<2250>>)
     /\ (/\ RemoteStart
         /\ now = 2500
         /\ Len(ends) = 1
         /\ eosQueueRef = ends
         /\ historyRef = <<>>)
          => (historyRef' = <<250>> /\ eosQueueRef' = <<>>)]_vars

(* C19 as amended: with SILENCE_MS = 400 the debounce armed at 1800 fires *)
(* at 2200 and emits an end edge stamped 2200; a remote start at 2500     *)
(* (gap 300, within the window) records the one measurement 300 and       *)
(* consumes the marker; once the clock reads 2500 the history is empty or *)
(* holds that measurement alone.                                          *)
C19_ScenarioA_Code ==
  [][/\ (/\ TimerFired
         /\ speakStartRef = Some(1000)
         /\ localSilenceTimerRef = Some(1800 + SilenceMs)
         /\ ~resumed
         /\ ends = <<>>)
          => (now' = 2200 /\ ends' = <<2200>> /\ eosQueueRef' = <<2200>>)
     /\ (/\ RemoteStart
         /\ now = 2500
         /\ ends = <<2200>>
         /\ eosQueueRef = ends
         /\ historyRef = <<>>)
          => (/\ historyRef' = <<300>>
              /\ latestLatency' = Some(300)
              /\ eosQueueRef' = <<>>)
     /\ (now' = 2500 /\ ends' = <<2200>>)
          => (historyRef' = <<>> \/ historyRef' = <<300>>)]_vars

\* the scenario has run: the end edge at 2200 was paired by the remote
\* start at 2500, and a second remote start at 2500 found nothing more
C19_Witness ==
  /\ now = 2500
  /\ ends = <<2200>>
  /\ used = <<2200>>
  /\ historyRef = <<300>>
  /\ latestLatency = Some(300)
  /\ eosQueueRef = <<>>
  /\ nStarts = 2

(* ------------------------------------------------------------------ *)
(* C22: the two detectors of the dual-VAD revision share no mutable     *)
(* smoothing state.  A step that changes the local EMA, speaking state, *)
(* speech start or debounce timer leaves rema, remoteSpeaking and the   *)
(* remote reset timer unchanged, and a step that changes any of those   *)
(* leaves the local ones unchanged.                                     *)
(* ------------------------------------------------------------------ *)
C22_NoSharedSmoothing ==
  [][rev = "dual" =>
       /\ (<<ema, isSpeakingRef, speakStartRef, localSilenceTimerRef>>'
             # <<ema, isSpeakingRef, speakStartRef, localSilenceTimerRef>>)
            => UNCHANGED <<rema, remoteSpeakingRef, silenceTimer>>
       /\ (<<rema, remoteSpeakingRef, silenceTimer>>'
             # <<rema, remoteSpeakingRef, silenceTimer>>)
            => UNCHANGED <<ema, isSpeakingRef, speakStartRef,
                           localSilenceTimerRef>>]_vars

\* both detectors have heard speech and then silence: each has its own EMA
\* and its own timer armed
C22_Witness ==
  /\ rev = "dual"
  /\ isSpeakingRef
  /\ remoteSpeakingRef
  /\ ema # rema
  /\ ~IsNull(localSilenceTimerRef)
  /\ ~IsNull(silenceTimer)

(* ------------------------------------------------------------------ *)
(* C23: remote start from the reported agent state (agent-state         *)
(* revision).  A correlation attempt is made exactly on a change of the *)
(* agent state from a non-'speaking' state to 'speaking'; nothing is    *)
(* recorded by any other step, so while the agent is 'speaking' the     *)
(* history does not grow.                                               *)
(* ------------------------------------------------------------------ *)
C23_StartOnSpeakingFlip ==
  [][rev = "agent" =>
       /\ RemoteStart <=> (agentState # "speaking" /\ agentState' = "speaking")
       /\ Measured => RemoteStart
       /\ agentState = "speaking" => historyRef' = historyRef]_vars

\* the agent is still in the speaking period that recorded a measurement,
\* and a later end marker is by now inside the window: it stays unpaired
C23_Witness ==
  /\ rev = "agent"
  /\ agentState = "speaking"
  /\ nStarts = 1
  /\ Len(historyRef) = 1
  /\ InWindow(now) # {}

(* ------------------------------------------------------------------ *)
(* C29: the remote VAD of the dual-VAD revision emits one start per     *)
(* remote utterance.  A correlation attempt is made only on a frame     *)
(* that finds remoteSpeaking false and the energy above R_THR;          *)
(* remoteSpeaking falls back only when the reset timer fires,           *)
(* R_SILENCE_MS after it was armed; the timer is armed only while the   *)
(* energy is at or below R_THR, and a frame above R_THR cancels it and  *)
(* leaves remoteSpeaking true, without another attempt.                 *)
(* ------------------------------------------------------------------ *)
C29_OneStartPerUtterance ==
  [][rev = "dual" =>
       /\ RemoteStart => (~remoteSpeakingRef /\ remoteSpeakingRef'
                            /\ Above(rema', R_THR))
       /\ (remoteSpeakingRef /\ ~remoteSpeakingRef')
            => (/\ ~IsNull(silenceTimer)
                /\ now' = Val(silenceTimer)
                /\ ~Above(rema, R_THR)
                /\ IsNull(silenceTimer'))
       /\ ~IsNull(silenceTimer')
            => (/\ ~Above(rema', R_THR)
                /\ remoteSpeakingRef'
                /\ Val(silenceTimer') - R_SILENCE_MS <= now'
                /\ now' <= Val(silenceTimer'))
       /\ (~IsNull(silenceTimer) /\ rema' # rema /\ Above(rema', R_THR))
            => (IsNull(silenceTimer') /\ remoteSpeakingRef' /\ ~RemoteStart)]_vars

\* after one remote start the energy has been at or below R_THR for
\* R_SILENCE_MS: the reset timer is due and has not run yet
C29_Witness ==
  /\ rev = "dual"
  /\ nStarts = 1
  /\ remoteSpeakingRef
  /\ ~IsNull(silenceTimer)
  /\ now = Val(silenceTimer)

(* ------------------------------------------------------------------ *)
(* C30: a rejected end candidate.  When the debounce timer fires, the   *)
(* speaking state is reset (isSpeaking false, speech start and timer    *)
(* slot cleared) whether or not an end edge is emitted; when the guard  *)
(* fails (spokeFor < MIN_SPEAK_MS, or less than REFRACTORY_MS since the *)
(* last end edge) the queue, lastEosRef, history, last and average are  *)
(* unchanged.                                                           *)
(* ------------------------------------------------------------------ *)
C30_RejectChangesNothing ==
  [][TimerFired =>
       LET spokeFor == now' - OrElse(speakStartRef, now')
           rested == ends = <<>> \/ now' - LastOf(ends) >= RefractMs
       IN /\ ~isSpeakingRef'
          /\ IsNull(speakStartRef')
          /\ IsNull(localSilenceTimerRef')
          /\ (spokeFor < MinSpeakMs \/ ~rested)
               => UNCHANGED <<eosQueueRef, lastEosRef, ends, historyRef,
                              latestLatency, averageLatency>>]_vars

\* agent-state revision: the timer's callback has moved the clock to its
\* due time and no end edge has ever been emitted: the candidate was
\* turned down and the detector is idle again
C30_Witness ==
  /\ rev = "agent"
  /\ ticks.jump = 1
  /\ ends = <<>>
  /\ lastEosRef = Null
  /\ ~isSpeakingRef
  /\ IsNull(speakStartRef)
  /\ IsNull(localSilenceTimerRef)

(* ------------------------------------------------------------------ *)
(* C25: every end of speech updates userEndTime ('play'-listener        *)
(* revision and part_007).  Stated as the claim states it, for every    *)
(* utterance of a session: whenever the user is marked speaking and the *)
(* last frame read silence, the 400 ms timer that will set userEndTime  *)
(* is pending.                                                          *)
(* ------------------------------------------------------------------ *)
C25_EveryStopArmsTimer ==
  (isUserSpeaking /\ ~(ema > PLAY_THR)) => timerLive

(* ------------------------------------------------------------------ *)
(* C26: 'play'-listener revision.  Stated as the claim states it: a     *)
(* 'play' event that fires after an end of speech was recorded at t     *)
(* records the latency playTime - t, also when t was recorded after the *)
(* listener was attached.                                               *)
(* ------------------------------------------------------------------ *)
C26_PlayRecordsSinceEnd ==
  [][(rev = "play" /\ RemoteStart /\ Truthy(userEndTime))
       => historyRef' = Append(historyRef, now - Val(userEndTime))]_vars

(* ------------------------------------------------------------------ *)
(* C27: part_007.  handlePlay reads the current marker: a 'play' event  *)
(* that fires after the silence timer set the marker to t records       *)
(* playTime - t and makes it last, whatever userEndTime was when the    *)
(* listener was attached.                                               *)
(* ------------------------------------------------------------------ *)
C27_PlayReadsCurrentMarker ==
  [][(rev = "play007" /\ RemoteStart /\ Truthy(userEndTime))
       => /\ historyRef' = Append(historyRef, now - Val(userEndTime))
          /\ latestLatency' = Some(now - Val(userEndTime))]_vars

\* part_007: the listener was attached while userEndTime was null, the
\* timer set the marker afterwards, and a later 'play' recorded the time
\* since the marker
C27_Witness ==
  /\ rev = "play007"
  /\ playListener = Some(Null)
  /\ ~IsNull(userEndTime)
  /\ now > Val(userEndTime)
  /\ historyRef = <<now - Val(userEndTime)>>
  /\ nStarts = 1

(* ------------------------------------------------------------------ *)
(* C28: refractory spacing in the IsSpeakingChanged revision.  Stated   *)
(* as the claim states it: no two end-of-speech markers are accepted    *)
(* within REFRACT_MS of each other, a remote speaking event that        *)
(* consumed the first marker in between included.                       *)
(* ------------------------------------------------------------------ *)
C28_WelcomeRefractory ==
  rev = "welcome" =>
    \A i \in 1..Len(ends) - 1 : ends[i + 1] - ends[i] >= W_REFRACT_MS

(* ------------------------------------------------------------------ *)
(* C24: the history is capped.  Stated as the claim states it: after    *)
(* any number of recorded measurements the history holds at most 200    *)
(* entries.                                                             *)
(* ------------------------------------------------------------------ *)
C24_HistoryCapped == Len(historyRef) <= 200

C32_QueueAfterPairing ==
  [][(RemoteStart /\ Measured)
       => LET m == LastOf(used') IN
          /\ \A t \in SeqSet(eosQueueRef') :
               t > m /\ now - t < MinGapMs /\ t \in SeqSet(eosQueueRef)
          /\ m \in SeqSet(eosQueueRef)
          /\ \A t \in SeqSet(eosQueueRef) :
               t <= m => t \notin SeqSet(eosQueueRef')]_vars

\* the older of two end edges was paired at the instant the newer one was
\* emitted: the newer one, too young to qualify, is what stays pending
C32_Witness ==
  /\ Len(ends) = 2
  /\ used = <<ends[1]>>
  /\ eosQueueRef = <<ends[2]>>
  /\ now = ends[2]
  /\ nStarts = 1
  /\ IF rev = "agent" THEN agentState = "speaking" ELSE remoteSpeakingRef

(* ------------------------------------------------------------------ *)
(* C33: the pending queue of the agent-state revision is bounded and    *)
(* spaced.  In every reachable state the queue is strictly increasing,  *)
(* consecutive entries are at least EoS_REFRACT_MS apart, no entry is   *)
(* later than the last end edge emitted, and the queue holds at most    *)
(* KEEP_MS \div EoS_REFRACT_MS + 1 = 11 entries.                        *)
(* ------------------------------------------------------------------ *)
C33_QueueBoundedAndSpaced ==
  /\ \A i \in 1..Len(eosQueueRef) - 1 :
       eosQueueRef[i + 1] - eosQueueRef[i] >= EoS_REFRACT_MS
  /\ \A i \in 1..Len(eosQueueRef) :
       ~IsNull(lastEosRef) /\ eosQueueRef[i] <= Val(lastEosRef)
  /\ Len(eosQueueRef) <= KEEP_MS \div EoS_REFRACT_MS + 1
  /\ KEEP_MS \div EoS_REFRACT_MS + 1 = 11

\* eleven end edges EoS_REFRACT_MS apart are pending, the oldest of them
\* KEEP_MS old, and an older one has been pruned on an insertion
C33_Witness ==
  /\ Len(eosQueueRef) = 11
  /\ eosQueueRef[11] - eosQueueRef[1] = KEEP_MS
  /\ Len(ends) = 12
  /\ used = <<>>
  /\ historyRef = <<>>

(* ------------------------------------------------------------------ *)
(* C35: timer discipline of the local detector, agent-state revision.   *)
(* A debounce timer is armed only while none is armed, so there is at   *)
(* most one; whenever one is armed isSpeaking is true and speechStart   *)
(* is non-null; and when the timer's callback runs, speechStart is      *)
(* non-null (the fallback 'started = now' is not taken) and spokeFor    *)
(* is at least SILENCE_MS.                                              *)
(* ------------------------------------------------------------------ *)
C35_TimerDiscipline ==
  /\ [](~IsNull(localSilenceTimerRef)
          => isSpeakingRef /\ ~IsNull(speakStartRef))
  /\ [][/\ (~IsNull(localSilenceTimerRef') /\
            localSilenceTimerRef' # localSilenceTimerRef)
              => IsNull(localSilenceTimerRef)
        /\ TimerFired
              => /\ ~IsNull(speakStartRef)
                 /\ now' - Val(speakStartRef) >= SILENCE_MS]_vars

\* a teardown cleared an armed timer, the detector attached again, armed
\* another timer for the same utterance, and that timer's callback has just
\* run and emitted the end edge
C35_Witness ==
  /\ ~IsNull(cancelled)
  /\ ~IsNull(lastAttach)
  /\ Len(ends) = 1
  /\ now = ends[1]
  /\ Val(cancelled) < ends[1]
  /\ Val(lastAttach) < ends[1]
  /\ IsNull(localSilenceTimerRef)
  /\ ~isSpeakingRef

(* ------------------------------------------------------------------ *)
(* C34: re-attachment in the middle of an utterance.  Stated as the     *)
(* claim states it: once the local detector has been attached again,    *)
(* an end edge is emitted only for an utterance whose rising edge was   *)
(* detected in the new attachment, that is, whose speechStart is not    *)
(* earlier than the attachment.                                         *)
(* ------------------------------------------------------------------ *)
C34_NoEndBeforeNewRisingEdge ==
  [][(EndEmitted /\ ~IsNull(lastAttach))
       => Val(speakStartRef) >= Val(lastAttach)]_vars

(* ------------------------------------------------------------------ *)
(* C31: raw-threshold revision of session-view.tsx.  Stated as the      *)
(* claim states it: when the silence timer's callback runs after an     *)
(* utterance of any length and SILENCE_MS of sustained silence, the     *)
(* marker userEndTimeRef is set to the time the callback ran.  The      *)
(* utterance is one that began when Date.now() was not 0.               *)
(* ------------------------------------------------------------------ *)
C31_EveryUtteranceSetsMarker ==
  [][(/\ rev = "raw"
      /\ Truthy(userLastSpokeAtRef)
      /\ ~IsNull(localSilenceTimerRef)
      /\ IsNull(localSilenceTimerRef')
      /\ ~isUserSpeakingRef'
      /\ ~resumed)
       => userEndTimeRef' = Some(now')]_vars

====
